---- MODULE Spec2Model ----
(***************************************************************************)
(* Model of the moleculer HTTP gateway (src/gateway.go).                   *)
(*                                                                         *)
(* Strings are sequences of one-character strings, so that splitting,      *)
(* trimming, upper-casing, replacing and regular-expression matching are   *)
(* computed character by character as the Go code computes them.           *)
(*                                                                         *)
(* Four specifications share the module:                                  *)
(*   Spec        the server lifecycle: rebuild triggers (resetHandlers),   *)
(*               the Stopped hook, and the route table each rebuild builds *)
(*   BuildSpec   one route-table build (filterActions and the handlers'    *)
(*               pattern / acceptedMethods) over drawn routes and listings *)
(*   HandlerSpec actionHandler.ServeHTTP over drawn handlers and requests   *)
(*   MatchSpec   shouldInclude over drawn whitelists and actions           *)
(***************************************************************************)
EXTENDS Integers, Sequences, FiniteSets, TLC

VARIABLES
    \* ---- Service(): the closure state shared by all rebuilds
    server,      \* the captured `server` variable: 0 is nil, n > 0 the server created by trigger n
    mutex,       \* the rebuild mutex: 0 is free, n > 0 held by trigger n
    srvState,    \* per server: "none" (not created), "new", "listening", "closed"
    pc,          \* per trigger: position of its resetHandlers goroutine
    seen,        \* per trigger: the value of `server` loaded by the nil check of line 432
    fired,       \* number of rebuild triggers dispatched so far
    table,       \* per trigger: the handler list its rebuild produced
    regErr,      \* per trigger: whether its registry query returned an error
    listingOf,   \* per trigger: what the registry held when it was queried
    degraded,    \* whether some server listened with the empty table of a failed registry query
    fetchedAt,   \* per trigger: value of `fired` when its registry query ran (0: not yet)
    stopPc,      \* position of the Stopped hook
    stopSeen,    \* value of `server` loaded by the nil check of line 476
    crashed,     \* NotCrashed, or the panic that ended the process
    settings,    \* instance.Settings["routes"], fixed at construction
    \* ---- one route-table build (BuildSpec)
    bRoutes,     \* the routes of the settings
    bListing,    \* the registry listing
    bHandlers,   \* the handler list of the latest build
    bDone,       \* whether a build has run
    bBound,      \* the (pattern, methods, action) triples the latest build bound
    bPrev,       \* the triples the build before it bound
    bBuilds,     \* number of builds so far
    bPanic,      \* whether the latest build panicked
    \* ---- one actionHandler and the requests it serves (HandlerSpec)
    hAlias, hAction, hCache, reqMethod, reqKind, rpcResult, calls, written, served,
    \* ---- shouldInclude (MatchSpec)
    mWhitelist, mAction, mResult, mDone

lifeVars == <<server, mutex, srvState, pc, seen, fired, table, regErr, listingOf, fetchedAt, degraded,
              stopPc, stopSeen, crashed, settings>>
buildVars == <<bRoutes, bListing, bHandlers, bDone, bBound, bPrev, bBuilds, bPanic>>
reqVars == <<hAlias, hAction, hCache, reqMethod, reqKind, rpcResult, calls, written, served>>
matchVars == <<mWhitelist, mAction, mResult, mDone>>
vars == <<lifeVars, buildVars, reqVars, matchVars>>

----------------------------------------------------------------------------
(* Strings                                                                 *)

SetMax(S) == CHOOSE x \in S : \A y \in S : y <= x
SetMin(S) == CHOOSE x \in S : \A y \in S : x <= y

\* the string from position i (1-based) to the end
Tail_(s, i) == SubSeq(s, i, Len(s))

\* strings.TrimSpace, for the blank character
RECURSIVE TrimLeft(_)
TrimLeft(s) == IF s # <<>> /\ Head(s) = " " THEN TrimLeft(Tail(s)) ELSE s
RECURSIVE TrimRight(_)
TrimRight(s) ==
    IF s # <<>> /\ s[Len(s)] = " " THEN TrimRight(SubSeq(s, 1, Len(s) - 1)) ELSE s
TrimSpace(s) == TrimRight(TrimLeft(s))

\* strings.Split(s, " "): the pieces between blanks, empty pieces included
RECURSIVE SplitAcc(_, _, _)
SplitAcc(s, cur, acc) ==
    IF s = <<>> THEN Append(acc, cur)
    ELSE IF Head(s) = " " THEN SplitAcc(Tail(s), <<>>, Append(acc, cur))
    ELSE SplitAcc(Tail(s), Append(cur, Head(s)), acc)
Split(s) == SplitAcc(s, <<>>, <<>>)

\* strings.ToUpper on the letters the model uses
UpperOf(c) ==
    CASE c = "g" -> "G" [] c = "e" -> "E" [] c = "t" -> "T" [] c = "p" -> "P"
      [] c = "o" -> "O" [] c = "s" -> "S" [] c = "u" -> "U" [] c = "d" -> "D"
      [] c = "l" -> "L" [] c = "a" -> "A" [] c = "m" -> "M" [] c = "x" -> "X"
      [] c = "i" -> "I" [] c = "r" -> "R" [] c = "c" -> "C" [] c = "h" -> "H"
      [] OTHER -> c
ToUpper(s) == [i \in 1..Len(s) |-> UpperOf(s[i])]

\* strings.Replace(s, old, new, -1): non-overlapping, left to right
RECURSIVE Replace(_, _, _)
Replace(s, old, new) ==
    IF Len(s) < Len(old) THEN s
    ELSE IF SubSeq(s, 1, Len(old)) = old
         THEN new \o Replace(Tail_(s, Len(old) + 1), old, new)
         ELSE <<Head(s)>> \o Replace(Tail(s), old, new)

----------------------------------------------------------------------------
(* regexp: the fixed expressions of lines 23-25 and regexp.Compile(item)   *)

\* actionWildCardRegex (.+)\.\* : leftmost match starts at the first
\* character, the greedy group stops before the last ".*" that has at
\* least one character before it
actionWildCardRegex(item) ==
    LET js == {j \in 2..(Len(item) - 1) : item[j] = "." /\ item[j + 1] = "*"}
    IN IF js = {} THEN <<>>
       ELSE <<SubSeq(item, 1, SetMax(js) + 1), SubSeq(item, 1, SetMax(js) - 1)>>

\* serviceWildCardRegex \*\.(.+) : leftmost "*." followed by at least one
\* character; the group is the rest of the string
serviceWildCardRegex(item) ==
    LET js == {j \in 1..(Len(item) - 2) : item[j] = "*" /\ item[j + 1] = "."}
    IN IF js = {} THEN <<>>
       ELSE <<Tail_(item, SetMin(js)), Tail_(item, SetMin(js) + 2)>>

\* serviceActionRegex (.+)\.(.+) : the first group is greedy, so the split
\* is at the last dot that has a character on both sides
serviceActionRegex(action) ==
    LET js == {j \in 2..(Len(action) - 1) : action[j] = "."}
    IN IF js = {} THEN <<>>
       ELSE <<action, SubSeq(action, 1, SetMax(js) - 1), Tail_(action, SetMax(js) + 1)>>

\* regexp.Compile for the syntax the model's patterns use: letters, ".",
\* postfix "*", "^", "$" and a backslash before punctuation.  The result is
\* the sequence of atoms, or <<"error">> when Go's parser rejects the
\* pattern (a "*" with nothing to repeat, a "*" after a "*", a trailing "\").
RegexError == <<"error">>
Atom(k, c) == [kind |-> k, ch |-> c, star |-> FALSE]
AtomOf(c) ==
    CASE c = "." -> Atom("any", c)
      [] c = "^" -> Atom("bol", c)
      [] c = "$" -> Atom("eol", c)
      [] OTHER -> Atom("lit", c)
RECURSIVE CompileAcc(_, _)
CompileAcc(p, acc) ==
    IF p = <<>> THEN acc
    ELSE IF Head(p) = "*"
         THEN IF acc = <<>> \/ acc[Len(acc)].star THEN RegexError
              ELSE CompileAcc(Tail(p),
                     [acc EXCEPT ![Len(acc)] = [@ EXCEPT !.star = TRUE]])
    ELSE IF Head(p) = "\\"
         THEN IF Len(p) < 2 THEN RegexError
              ELSE CompileAcc(Tail_(p, 3), Append(acc, Atom("lit", p[2])))
    ELSE CompileAcc(Tail(p), Append(acc, AtomOf(Head(p))))
\* Compile as it would be if a leading "*" were dropped instead of rejected
Compile_lenient(p) == CompileAcc(IF p # <<>> /\ Head(p) = "*" THEN Tail(p) ELSE p, <<>>)

Compile(p) == CompileAcc(p, <<>>)

\* does atom a match the single character c
AtomMatches(a, c) == (a.kind = "any" /\ c # "\n") \/ (a.kind = "lit" /\ a.ch = c)

\* does re[i..] match s starting after the first pos characters
RECURSIVE MatchHere(_, _, _, _)
MatchHere(re, i, s, pos) ==
    IF i > Len(re) THEN TRUE
    ELSE LET a == re[i] IN
      IF a.kind = "bol" THEN (a.star \/ pos = 0) /\ MatchHere(re, i + 1, s, pos)
      ELSE IF a.kind = "eol" THEN (a.star \/ pos = Len(s)) /\ MatchHere(re, i + 1, s, pos)
      ELSE IF a.star
           THEN \E k \in 0..(Len(s) - pos) :
                   /\ \A n \in 1..k : AtomMatches(a, s[pos + n])
                   /\ MatchHere(re, i + 1, s, pos + k)
           ELSE /\ pos < Len(s)
                /\ AtomMatches(a, s[pos + 1])
                /\ MatchHere(re, i + 1, s, pos + 1)

\* MatchString as it would be if the expression had to match from the start
MatchString_fromStart(re, s) == MatchHere(re, 1, s, 0)

\* Regexp.MatchString: the expression matches somewhere in s
MatchString(re, s) == \E start \in 0..Len(s) : MatchHere(re, 1, s, start)

----------------------------------------------------------------------------
(* shouldInclude                                                           *)

\* one iteration of the loop of lines 29-53: does this item return true
ItemIncludes(item, action) ==
    LET whitelistService == actionWildCardRegex(item)
        whitelistAction == serviceWildCardRegex(item)
        actionService == serviceActionRegex(action)
        itemRegex == Compile(item)
    IN \/ item = <<"*", "*">>
       \/ item = <<"*", ".", "*">>
       \/ /\ Len(whitelistService) > 0 /\ whitelistService[2] # <<>>
          /\ Len(actionService) > 1 /\ Len(whitelistService) > 1
          /\ actionService[2] = whitelistService[2]
       \/ /\ Len(whitelistAction) > 0 /\ whitelistAction[2] # <<>>
          /\ Len(actionService) > 2 /\ Len(whitelistAction) > 1
          /\ actionService[3] = whitelistAction[2]
       \/ /\ itemRegex # RegexError
          /\ MatchString(itemRegex, action)

\* shouldInclude as it would be if only the first pattern were tried
shouldInclude_firstOnly(whitelist, action) ==
    whitelist # <<>> /\ ItemIncludes(Head(whitelist), action)

RECURSIVE shouldInclude(_, _)
shouldInclude(whitelist, action) ==
    IF whitelist = <<>> THEN FALSE
    ELSE IF ItemIncludes(Head(whitelist), action) THEN TRUE
    ELSE shouldInclude(Tail(whitelist), action)

----------------------------------------------------------------------------
(* actionHandler                                                           *)

Panic == <<"panic">>

GET == <<"G", "E", "T">>
POST == <<"P", "O", "S", "T">>
PUT == <<"P", "U", "T">>
DELETE == <<"D", "E", "L", "E", "T", "E">>
validMethods == <<GET, POST, PUT, DELETE>>

validMethod(method) == \E i \in 1..Len(validMethods) : validMethods[i] = method

\* aliasPath: the path token of the alias, "" without alias, Panic when the
\* trimmed alias does not split into one or two pieces
aliasPath(handler) ==
    IF handler.alias # <<>>
    THEN LET parts == Split(TrimSpace(handler.alias))
         IN IF Len(parts) = 1 THEN parts[1]
            ELSE IF Len(parts) = 2 THEN parts[2]
            ELSE Panic
    ELSE <<>>

\* pattern: routePath "/" (alias path or action path), every "//" replaced
pattern(handler) ==
    LET actionPath == Replace(handler.action, <<".">>, <<"/">>)
        alias == aliasPath(handler)
        fullPath == IF alias # <<>>
                    THEN handler.routePath \o <<"/">> \o alias
                    ELSE handler.routePath \o <<"/">> \o actionPath
    IN IF alias = Panic THEN Panic
       ELSE Replace(fullPath, <<"/", "/">>, <<"/">>)

\* acceptedMethods with an empty cache: the value computed and cached
computeAcceptedMethods(alias) ==
    LET parts == Split(TrimSpace(alias))
    IN IF alias # <<>> /\ Len(parts) = 2 /\ validMethod(ToUpper(parts[1]))
       THEN {ToUpper(parts[1])}
       ELSE {GET, POST, PUT, DELETE}

\* acceptedMethods: the cache when it is set ({} is the nil map)
acceptedMethods(alias, cache) ==
    IF cache # {} THEN cache ELSE computeAcceptedMethods(alias)

----------------------------------------------------------------------------
(* Route table: invertStringMap, createActionHandlers, filterActions       *)

\* invertStringMap: out[value] = key for every entry, in map iteration
\* order; when two keys have the same value the last one visited wins, and
\* Go's iteration order is unspecified, so every choice is a possible result
invertStringMap(in) ==
    LET values == {in[k] : k \in DOMAIN in}
    IN {out \in [values -> DOMAIN in] : \A v \in values : in[out[v]] = v}

\* createActionHandlers as it would be if the mapping policy were not consulted
RECURSIVE createActionHandlers_noRestrict(_, _, _)
createActionHandlers_noRestrict(route, actions, actionToAlias) ==
    IF actions = <<>> THEN <<>>
    ELSE LET action == Head(actions)
             exists == action \in DOMAIN actionToAlias
         IN <<[alias |-> IF exists THEN actionToAlias[action] ELSE <<>>,
               routePath |-> route.path,
               action |-> action]>>
              \o createActionHandlers_noRestrict(route, Tail(actions), actionToAlias)

\* createActionHandlers, given the inverted alias map
RECURSIVE createActionHandlers(_, _, _)
createActionHandlers(route, actions, actionToAlias) ==
    IF actions = <<>> THEN <<>>
    ELSE LET action == Head(actions)
             exists == action \in DOMAIN actionToAlias
             mappingPolicy == IF route.hasPolicy THEN route.mappingPolicy ELSE "all"
             rest == createActionHandlers(route, Tail(actions), actionToAlias)
         IN IF ~exists /\ mappingPolicy = "restrict" THEN rest
            ELSE <<[alias |-> IF exists THEN actionToAlias[action] ELSE <<>>,
                    routePath |-> route.path,
                    action |-> action]>> \o rest

\* the full names of a service's actions, in listing order
RECURSIVE serviceActions(_, _)
serviceActions(name, actions) ==
    IF actions = <<>> THEN <<>>
    ELSE <<name \o <<".">> \o Head(actions)>> \o serviceActions(name, Tail(actions))

\* the full names of all actions of the listing, in listing order
RECURSIVE allActions(_)
allActions(services) ==
    IF services = <<>> THEN <<>>
    ELSE serviceActions(Head(services).name, Head(services).actions)
           \o allActions(Tail(services))

\* the subsequence of actions that shouldInclude accepts
RECURSIVE filteredActions(_, _)
filteredActions(whitelist, actions) ==
    IF actions = <<>> THEN <<>>
    ELSE IF shouldInclude(whitelist, Head(actions))
         THEN <<Head(actions)>> \o filteredActions(whitelist, Tail(actions))
         ELSE filteredActions(whitelist, Tail(actions))

\* the whitelist of a route: ["**"] when the key is absent
routeWhitelist(route) ==
    IF route.hasWhitelist THEN route.whitelist ELSE <<(<<"*", "*">>)>>

\* the handlers of one route
routeHandlers(route, services, actionToAlias) ==
    createActionHandlers(route,
        filteredActions(routeWhitelist(route), allActions(services)), actionToAlias)

\* filterActions; inverted[i] is the inverted alias map of route i
RECURSIVE filterActionsFrom(_, _, _, _)
filterActionsFrom(routes, services, inverted, i) ==
    IF i > Len(routes) THEN <<>>
    ELSE routeHandlers(routes[i], services, inverted[i])
           \o filterActionsFrom(routes, services, inverted, i + 1)

\* filterActions as it would be if the second of two routes were taken first
filterActions_secondRouteFirst(routes, services, inverted) ==
    IF Len(routes) = 2
    THEN routeHandlers(routes[2], services, inverted[2])
           \o routeHandlers(routes[1], services, inverted[1])
    ELSE filterActionsFrom(routes, services, inverted, 1)

filterActions(routes, services, inverted) == filterActionsFrom(routes, services, inverted, 1)

\* the possible inverted alias maps of the routes, one per route
InvertedMaps(routes) ==
    {inv \in [1..Len(routes) -> UNION {invertStringMap(routes[i].aliases) : i \in 1..Len(routes)}] :
        \A i \in 1..Len(routes) : inv[i] \in invertStringMap(routes[i].aliases)}

\* fetchServices as it would be if the error result were not replaced
fetchServices_noFallback(listing, isError) == listing

\* fetchServices: the listing, or the empty listing on a registry error
fetchServices(listing, isError) == IF isError THEN <<>> ELSE listing

\* populateActionsRouter panics iff some handler's pattern() panics
RouterPanics(handlers) == \E i \in 1..Len(handlers) : pattern(handlers[i]) = Panic

----------------------------------------------------------------------------
(* Inputs of the lifecycle specification                                   *)

a_users_list == <<"u", "s", "e", "r", "s", ".", "l", "i", "s", "t">>
a_users_create == <<"u", "s", "e", "r", "s", ".", "c", "r", "e", "a", "t", "e">>
a_math_add == <<"m", "a", "t", "h", ".", "a", "d", "d">>
n_users == <<"u", "s", "e", "r", "s">>
n_math == <<"m", "a", "t", "h">>
n_list == <<"l", "i", "s", "t">>
n_create == <<"c", "r", "e", "a", "t", "e">>
n_add == <<"a", "d", "d">>
al_get_users == <<"G", "E", "T", " ", "u", "s", "e", "r", "s">>
al_three == <<"G", "E", "T", " ", "P", "O", "S", "T", " ", "u", "s", "e", "r", "s">>
p_root == <<"/">>
p_api == <<"/", "a", "p", "i">>
w_all == <<"*", "*">>

\* a route of the settings; hasWhitelist / hasPolicy tell whether the key is present
Route(path, hasWhitelist, whitelist, hasPolicy, mappingPolicy, aliases) ==
    [path |-> path, hasWhitelist |-> hasWhitelist, whitelist |-> whitelist,
     hasPolicy |-> hasPolicy, mappingPolicy |-> mappingPolicy, aliases |-> aliases]

NoAliases == [k \in {} |-> <<>>]

\* defaultRoutes (lines 298-320)
defaultRoutes == <<Route(p_root, TRUE, <<w_all>>, TRUE, "all", NoAliases)>>

\* a restrict route with one method alias
restrictRoutes ==
    <<Route(p_api, FALSE, <<>>, TRUE, "restrict", [k \in {al_get_users} |-> a_users_list])>>

\* a route whose alias string has three tokens
threeTokenRoutes ==
    <<Route(p_root, TRUE, <<w_all>>, TRUE, "all", [k \in {al_three} |-> a_math_add])>>

SettingsChoices == {defaultRoutes, restrictRoutes, threeTokenRoutes}

\* what the registry may answer to "$node.services"
listingUsers == <<[name |-> n_users, actions |-> <<n_list, n_create>>]>>
listingUsersMath ==
    <<[name |-> n_users, actions |-> <<n_list, n_create>>],
      [name |-> n_math, actions |-> <<n_add>>]>>
Listings == {listingUsers, listingUsersMath}

----------------------------------------------------------------------------
(* Server lifecycle: Service(), resetHandlers, Started, Stopped, Events    *)

MaxTriggers == 3
Triggers == 1..MaxTriggers

\* values of `crashed`: the process runs, or it died of the nil dereference
\* of `server.Shutdown(nil)`, or of the panic of aliasPath
NotCrashed == "running"
NilDereference == "nil dereference"
InvalidAlias == "invalid alias"

LifeInit ==
    /\ server = 0
    /\ mutex = 0
    /\ srvState = [t \in Triggers |-> "none"]
    /\ pc = [t \in Triggers |-> "idle"]
    /\ seen = [t \in Triggers |-> 0]
    /\ fired = 0
    /\ table = [t \in Triggers |-> <<>>]
    /\ regErr = [t \in Triggers |-> FALSE]
    /\ listingOf = [t \in Triggers |-> <<>>]
    /\ fetchedAt = [t \in Triggers |-> 0]
    /\ degraded = FALSE
    /\ stopPc = "idle"
    /\ stopSeen = 0
    /\ crashed = NotCrashed
    /\ settings \in SettingsChoices

\* http.Server.Shutdown: closes the listener of a listening server; a server
\* that did not listen yet is marked so that ListenAndServe returns at once
ShutdownServer(st, s) ==
    IF st[s] \in {"new", "listening"} THEN [st EXCEPT ![s] = "closed"] ELSE st

\* Started and the two event handlers: `go resetHandlers(context)`
Fire ==
    /\ crashed = NotCrashed
    /\ stopPc = "idle"
    /\ fired < MaxTriggers
    /\ fired' = fired + 1
    /\ pc' = [pc EXCEPT ![fired + 1] = "check"]
    /\ UNCHANGED <<server, mutex, srvState, seen, table, regErr, listingOf, fetchedAt, degraded,
                   stopPc, stopSeen, crashed, settings>>

\* line 432: `if server != nil`, read without the mutex
CheckServer(t) ==
    /\ crashed = NotCrashed
    /\ pc[t] = "check"
    /\ seen' = [seen EXCEPT ![t] = server]
    /\ pc' = [pc EXCEPT ![t] = IF server # 0 THEN "shutdown" ELSE "lock"]
    /\ UNCHANGED <<server, mutex, srvState, fired, table, regErr, listingOf, fetchedAt, degraded,
                   stopPc, stopSeen, crashed, settings>>

\* line 433: `server.Shutdown(nil)`.  The variable is read again without
\* synchronisation: the call goes to the server seen by the check (one load
\* kept in a register) or to the current value (a second load); through a
\* nil value it is a nil dereference, an unrecovered panic in a goroutine.
RequestShutdown(t) ==
    /\ crashed = NotCrashed
    /\ pc[t] = "shutdown"
    /\ \E target \in {seen[t], server} :
          IF target = 0
          THEN /\ crashed' = NilDereference
               /\ UNCHANGED <<srvState, pc>>
          ELSE /\ srvState' = ShutdownServer(srvState, target)
               /\ pc' = [pc EXCEPT ![t] = "lock"]
               /\ UNCHANGED crashed
    /\ seen' = [seen EXCEPT ![t] = 0]
    /\ UNCHANGED <<server, mutex, fired, table, regErr, listingOf, fetchedAt, degraded,
                   stopPc, stopSeen, settings>>

\* Lock as it would be if the mutex did not exclude a second holder
Lock_nomutex(t) ==
    /\ crashed = NotCrashed
    /\ pc[t] = "lock"
    /\ mutex' = t
    /\ pc' = [pc EXCEPT ![t] = "create"]
    /\ UNCHANGED <<server, srvState, seen, fired, table, regErr, listingOf, fetchedAt, degraded,
                   stopPc, stopSeen, crashed, settings>>

\* line 435: mutex.Lock()
Lock(t) ==
    /\ crashed = NotCrashed
    /\ pc[t] = "lock"
    /\ mutex = 0
    /\ mutex' = t
    /\ pc' = [pc EXCEPT ![t] = "create"]
    /\ UNCHANGED <<server, srvState, seen, fired, table, regErr, listingOf, fetchedAt, degraded,
                   stopPc, stopSeen, crashed, settings>>

\* lines 436-438: getAddress and `server = &http.Server{Addr: address}`
CreateServer(t) ==
    /\ crashed = NotCrashed
    /\ pc[t] = "create"
    /\ server' = t
    /\ srvState' = [srvState EXCEPT ![t] = "new"]
    /\ pc' = [pc EXCEPT ![t] = "build"]
    /\ UNCHANGED <<mutex, seen, fired, table, regErr, listingOf, fetchedAt, degraded,
                   stopPc, stopSeen, crashed, settings>>

\* lines 446-450: populateActionsRouter: the registry query (which may
\* fail), filterActions, and pattern() of every handler (which may panic)
BuildRouter(t) ==
    /\ crashed = NotCrashed
    /\ pc[t] = "build"
    /\ \E listing \in Listings, isError \in BOOLEAN, inverted \in InvertedMaps(settings) :
          LET handlers == filterActions(settings, fetchServices(listing, isError), inverted)
          IN /\ regErr' = [regErr EXCEPT ![t] = isError]
             /\ listingOf' = [listingOf EXCEPT ![t] = listing]
             /\ fetchedAt' = [fetchedAt EXCEPT ![t] = fired]
             /\ table' = [table EXCEPT ![t] = handlers]
             /\ IF RouterPanics(handlers)
                THEN crashed' = InvalidAlias /\ UNCHANGED pc
                ELSE pc' = [pc EXCEPT ![t] = "listen"] /\ UNCHANGED crashed
    /\ UNCHANGED <<server, mutex, srvState, seen, fired, degraded, stopPc, stopSeen, settings>>

\* line 454: server.ListenAndServe() is called; it returns at once when
\* Shutdown was already requested on this server, else the server listens
Listen(t) ==
    /\ crashed = NotCrashed
    /\ pc[t] = "listen"
    /\ IF srvState[t] = "closed"
       THEN /\ pc' = [pc EXCEPT ![t] = "clear"]
            /\ UNCHANGED <<srvState, degraded>>
       ELSE /\ srvState' = [srvState EXCEPT ![t] = "listening"]
            /\ degraded' = (degraded \/ regErr[t])
            /\ pc' = [pc EXCEPT ![t] = "serving"]
    /\ UNCHANGED <<server, mutex, seen, fired, table, regErr, listingOf, fetchedAt,
                   stopPc, stopSeen, crashed, settings>>

\* ServeReturn as it would be if the rebuild did not block in ListenAndServe
ServeReturn_early(t) ==
    /\ crashed = NotCrashed
    /\ pc[t] = "serving"
    /\ pc' = [pc EXCEPT ![t] = "clear"]
    /\ UNCHANGED <<server, mutex, srvState, seen, fired, table, regErr, listingOf, fetchedAt,
                   degraded, stopPc, stopSeen, crashed, settings>>

\* line 454: ListenAndServe returns after Shutdown closed the listener
ServeReturn(t) ==
    /\ crashed = NotCrashed
    /\ pc[t] = "serving"
    /\ srvState[t] = "closed"
    /\ pc' = [pc EXCEPT ![t] = "clear"]
    /\ UNCHANGED <<server, mutex, srvState, seen, fired, table, regErr, listingOf, fetchedAt, degraded,
                   stopPc, stopSeen, crashed, settings>>

\* ClearServer as it would be if the slot were left as it is
ClearServer_keep(t) ==
    /\ crashed = NotCrashed
    /\ pc[t] = "clear"
    /\ pc' = [pc EXCEPT ![t] = "unlock"]
    /\ UNCHANGED <<server, mutex, srvState, seen, fired, table, regErr, listingOf, fetchedAt,
                   degraded, stopPc, stopSeen, crashed, settings>>

\* line 459: server = nil
ClearServer(t) ==
    /\ crashed = NotCrashed
    /\ pc[t] = "clear"
    /\ server' = 0
    /\ pc' = [pc EXCEPT ![t] = "unlock"]
    /\ UNCHANGED <<mutex, srvState, seen, fired, table, regErr, listingOf, fetchedAt, degraded,
                   stopPc, stopSeen, crashed, settings>>

\* line 460: mutex.Unlock(); the goroutine ends and its handlers are garbage
Unlock(t) ==
    /\ crashed = NotCrashed
    /\ pc[t] = "unlock"
    /\ mutex' = 0
    /\ pc' = [pc EXCEPT ![t] = "done"]
    /\ table' = [table EXCEPT ![t] = <<>>]
    /\ regErr' = [regErr EXCEPT ![t] = FALSE]
    /\ listingOf' = [listingOf EXCEPT ![t] = <<>>]
    /\ fetchedAt' = [fetchedAt EXCEPT ![t] = 0]
    /\ UNCHANGED <<server, srvState, seen, fired, degraded,
                   stopPc, stopSeen, crashed, settings>>

\* lines 475-478 of Stopped: `if server == nil { return }`
StopCheck ==
    /\ crashed = NotCrashed
    /\ stopPc = "idle"
    /\ fired >= 1
    /\ stopSeen' = server
    /\ stopPc' = IF server = 0 THEN "done" ELSE "shutdown"
    /\ UNCHANGED <<server, mutex, srvState, pc, seen, fired, table, regErr, listingOf,
                   fetchedAt, degraded, crashed, settings>>

\* line 479 of Stopped: `server.Shutdown(nil)`, read again as in resetHandlers
StopShutdown ==
    /\ crashed = NotCrashed
    /\ stopPc = "shutdown"
    /\ \E target \in {stopSeen, server} :
          IF target = 0
          THEN /\ crashed' = NilDereference
               /\ UNCHANGED <<srvState, stopPc>>
          ELSE /\ srvState' = ShutdownServer(srvState, target)
               /\ stopPc' = "done"
               /\ UNCHANGED crashed
    /\ UNCHANGED <<server, mutex, pc, seen, fired, table, regErr, listingOf, fetchedAt, degraded,
                   stopSeen, settings>>

resetHandlers(t) ==
    \/ CheckServer(t) \/ RequestShutdown(t) \/ Lock(t) \/ CreateServer(t)
    \/ BuildRouter(t) \/ Listen(t) \/ ServeReturn(t) \/ ClearServer(t) \/ Unlock(t)

LifeNext ==
    /\ \/ Fire
       \/ \E t \in Triggers : resetHandlers(t)
       \/ StopCheck
       \/ StopShutdown
    /\ UNCHANGED <<buildVars, reqVars, matchVars>>

----------------------------------------------------------------------------
(* Inputs of the build, handler and matcher specifications                 *)

al_get_users_lower == <<"g", "e", "t", " ", "u", "s", "e", "r", "s">>
al_post_users == <<"P", "O", "S", "T", " ", "u", "s", "e", "r", "s">>
al_users == <<"u", "s", "e", "r", "s">>
al_patch_users == <<"P", "A", "T", "C", "H", " ", "u", "s", "e", "r", "s">>
al_padded == <<" ", "G", "E", "T", " ", "u", "s", "e", "r", "s", " ">>
w_users_star == <<"u", "s", "e", "r", "s", ".", "*">>
w_math_star == <<"m", "a", "t", "h", ".", "*">>
a_aftermath_add == <<"a", "f", "t", "e", "r", "m", "a", "t", "h", ".", "a", "d", "d">>
a_math_sub == <<"m", "a", "t", "h", ".", "s", "u", "b">>
a_users_math == <<"u", "s", "e", "r", "s", ".", "m", "a", "t", "h">>
a_mathx_add == <<"m", "a", "t", "h", "x", ".", "a", "d", "d">>
a_v1_math_add == <<"v", "1", ".", "m", "a", "t", "h", ".", "a", "d", "d">>
n_aftermath == <<"a", "f", "t", "e", "r", "m", "a", "t", "h">>
w_math == <<"m", "a", "t", "h">>
w_anchored == <<"^", "m", "a", "t", "h", "\\", ".", "a", "d", "d", "$">>
w_star_add == <<"*", ".", "a", "d", "d">>
w_bad_star == <<"*", "a", "d", "d">>
a_math_addx == <<"m", "a", "t", "h", ".", "a", "d", "d", "x">>
w_star_dot_star == <<"*", ".", "*">>
al_slash_users == <<"/", "u", "s", "e", "r", "s">>
PATCH == <<"P", "A", "T", "C", "H">>

\* alias maps of a route
AliasMaps ==
    { NoAliases,
      [k \in {al_get_users} |-> a_users_list],
      [k \in {al_get_users_lower} |-> a_users_list],
      [k \in {al_padded} |-> a_users_list],
      [k \in {al_users} |-> a_users_list],
      [k \in {al_get_users, al_post_users} |-> a_users_list],
      [k \in {al_patch_users} |-> a_users_create],
      [k \in {al_three} |-> a_math_add],
      [k \in {al_slash_users} |-> a_users_list] }

BuildWhitelists ==
    {<<w_all>>, <<w_users_star>>, <<>>, <<w_bad_star, w_users_star>>,
     <<w_users_star, w_bad_star>>, <<w_math_star, w_star_dot_star>>, <<w_math, w_all>>}

\* the routes a build is given: whitelist absent or drawn, policy absent, all or restrict
BuildRouteSet ==
    {Route(path, hw, IF hw THEN w ELSE <<>>, hp, IF hp THEN mp ELSE "", al) :
        path \in {p_api, p_root}, hw \in BOOLEAN, w \in BuildWhitelists, hp \in BOOLEAN,
        mp \in {"all", "restrict"}, al \in AliasMaps}

\* the routes that are combined into settings with two routes
PairedRouteSet ==
    { Route(p_root, TRUE, <<w_all>>, TRUE, "all", NoAliases),
      Route(p_api, TRUE, <<w_users_star>>, FALSE, "", NoAliases),
      Route(p_api, FALSE, <<>>, TRUE, "restrict", [k \in {al_get_users} |-> a_users_list]),
      Route(p_root, TRUE, <<w_math_star>>, TRUE, "all", [k \in {al_users} |-> a_users_list]),
      Route(p_api, TRUE, <<>>, TRUE, "all", NoAliases) }

BuildRoutes ==
    {<<r>> : r \in BuildRouteSet} \cup {<<r1, r2>> : r1 \in PairedRouteSet, r2 \in PairedRouteSet}
BuildListings == {<<>>, listingUsers, listingUsersMath}

BuildInit ==
    /\ bRoutes \in BuildRoutes
    /\ bListing \in BuildListings
    /\ bHandlers = <<>>
    /\ bDone = FALSE
    /\ bBound = <<>>
    /\ bPrev = <<>>
    /\ bBuilds = 0
    /\ bPanic = FALSE

BuildIdle ==
    /\ bRoutes = <<>>
    /\ bListing = <<>>
    /\ bHandlers = <<>>
    /\ bDone = FALSE
    /\ bBound = <<>>
    /\ bPrev = <<>>
    /\ bBuilds = 0
    /\ bPanic = FALSE

MaxBuilds == 2

\* what router.Handle registers for a handler: its pattern, the handler's
\* accepted methods and its action
BoundTriple(handler) ==
    [pattern |-> pattern(handler),
     methods |-> acceptedMethods(handler.alias, {}),
     action |-> handler.action]

\* populateActionsRouter over the drawn routes and listing: filterActions,
\* then pattern() and router.Handle for every handler; a panic of pattern()
\* ends the process, so no further build follows
Build ==
    /\ bBuilds < MaxBuilds
    /\ ~bPanic
    /\ \E inverted \in InvertedMaps(bRoutes) :
          LET handlers == filterActions(bRoutes, bListing, inverted)
          IN /\ bHandlers' = handlers
             /\ bPanic' = RouterPanics(handlers)
             /\ bBound' = IF RouterPanics(handlers) THEN <<>>
                           ELSE [i \in 1..Len(handlers) |-> BoundTriple(handlers[i])]
    /\ bPrev' = bBound
    /\ bBuilds' = bBuilds + 1
    /\ bDone' = TRUE
    /\ UNCHANGED <<bRoutes, bListing>>

BuildNext == Build /\ UNCHANGED <<lifeVars, reqVars, matchVars>>

----------------------------------------------------------------------------
(* actionHandler.ServeHTTP                                                 *)

succesStatusCode == 200
errorStatusCode == 500

HandlerAliases == {<<>>, al_get_users, al_get_users_lower, al_post_users, al_users,
                   al_patch_users, al_padded}
HandlerActions == {a_users_list, a_math_add}
RequestMethods == {GET, POST, PUT, DELETE, PATCH}

\* what the request carries: form values; a form that fails to parse; no
\* form values and a body that cannot be read; no form values and a body
\* that the codec turns into a value payload or into an error payload
RequestKinds == {"form", "formError", "bodyReadError", "bodyValue", "bodyError"}

\* paramsFromRequest: the payload handed to the call
paramsFromRequest(kind) ==
    CASE kind = "form" -> [isError |-> FALSE, from |-> "form"]
      [] kind = "formError" -> [isError |-> TRUE, from |-> "form"]
      [] kind = "bodyReadError" -> [isError |-> TRUE, from |-> "body"]
      [] kind = "bodyValue" -> [isError |-> FALSE, from |-> "body"]
      [] kind = "bodyError" -> [isError |-> TRUE, from |-> "body"]

\* sendReponse as it would be if the status did not follow the payload
sendReponse_always200(result) ==
    [status |-> succesStatusCode, isError |-> result.isError]

\* sendReponse: one WriteHeader and one Write of the serialized payload
sendReponse(result) ==
    [status |-> IF result.isError THEN errorStatusCode ELSE succesStatusCode,
     isError |-> result.isError]

\* invalidHttpMethodError: an error payload naming the accepted methods
invalidHttpMethodError(methods) ==
    [sendReponse([isError |-> TRUE]) EXCEPT !.isError = TRUE] @@ [methods |-> methods]

ReqInit ==
    /\ hAlias \in HandlerAliases
    /\ hAction \in HandlerActions
    /\ hCache = {}
    /\ reqMethod = <<>>
    /\ reqKind = "none"
    /\ rpcResult = "none"
    /\ calls = <<>>
    /\ written = <<>>
    /\ served = FALSE

ReqIdle ==
    /\ hAlias = <<>>
    /\ hAction = <<>>
    /\ hCache = {}
    /\ reqMethod = <<>>
    /\ reqKind = "none"
    /\ rpcResult = "none"
    /\ calls = <<>>
    /\ written = <<>>
    /\ served = FALSE

\* ServeHTTP for one request: `calls` are the RPC calls it issued, `written`
\* the responses it wrote; callIsError is what the call's channel delivers
ServeHTTP(method, kind, callIsError) ==
    LET methods == acceptedMethods(hAlias, hCache)
        isCase == method \in {GET, POST, PUT, DELETE}
        accepted == isCase /\ method \in methods
    IN /\ hCache' = methods
       /\ reqMethod' = method
       /\ reqKind' = kind
       /\ served' = TRUE
       /\ IF accepted
          THEN /\ calls' = <<[action |-> hAction, params |-> paramsFromRequest(kind)]>>
               /\ rpcResult' = IF callIsError THEN "error" ELSE "value"
               /\ written' = <<sendReponse([isError |-> callIsError])>>
          ELSE IF isCase
          THEN /\ calls' = <<>>
               /\ rpcResult' = "none"
               /\ written' = <<>>
          ELSE /\ calls' = <<>>
               /\ rpcResult' = "none"
               /\ written' = <<invalidHttpMethodError(methods)>>
       /\ UNCHANGED <<hAlias, hAction>>

ReqNext ==
    /\ \E method \in RequestMethods, kind \in RequestKinds, callIsError \in BOOLEAN :
          ServeHTTP(method, kind, callIsError)
    /\ UNCHANGED <<lifeVars, buildVars, matchVars>>

----------------------------------------------------------------------------
(* shouldInclude over drawn inputs                                         *)

MatchPatterns == {w_all, w_users_star, w_math_star, w_math, w_anchored, w_star_add, w_bad_star}
MatchWhitelists == {<<>>} \cup {<<p>> : p \in MatchPatterns}
                     \cup {<<p1, p2>> : p1 \in MatchPatterns, p2 \in MatchPatterns}
MatchActions == {a_math_add, a_math_sub, a_users_list, a_users_create, a_aftermath_add,
                 a_users_math, a_mathx_add, a_v1_math_add, a_math_addx}

MatchInit ==
    /\ mWhitelist \in MatchWhitelists
    /\ mAction \in MatchActions
    /\ mResult = FALSE
    /\ mDone = FALSE

MatchIdle ==
    /\ mWhitelist = <<>>
    /\ mAction = <<>>
    /\ mResult = FALSE
    /\ mDone = FALSE

Match ==
    /\ ~mDone
    /\ mResult' = shouldInclude(mWhitelist, mAction)
    /\ mDone' = TRUE
    /\ UNCHANGED <<mWhitelist, mAction>>

MatchNext == Match /\ UNCHANGED <<lifeVars, buildVars, reqVars>>

----------------------------------------------------------------------------
(* Specifications                                                          *)

LifeIdle ==
    /\ server = 0
    /\ mutex = 0
    /\ srvState = [t \in Triggers |-> "none"]
    /\ pc = [t \in Triggers |-> "idle"]
    /\ seen = [t \in Triggers |-> 0]
    /\ fired = 0
    /\ table = [t \in Triggers |-> <<>>]
    /\ regErr = [t \in Triggers |-> FALSE]
    /\ listingOf = [t \in Triggers |-> <<>>]
    /\ fetchedAt = [t \in Triggers |-> 0]
    /\ degraded = FALSE
    /\ stopPc = "idle"
    /\ stopSeen = 0
    /\ crashed = NotCrashed
    /\ settings = defaultRoutes

Init == LifeInit /\ BuildIdle /\ ReqIdle /\ MatchIdle
Next == LifeNext
Spec == Init /\ [][Next]_vars

BuildSpecInit == LifeIdle /\ BuildInit /\ ReqIdle /\ MatchIdle
BuildSpec == BuildSpecInit /\ [][BuildNext]_vars

HandlerSpecInit == LifeIdle /\ BuildIdle /\ ReqInit /\ MatchIdle
HandlerSpec == HandlerSpecInit /\ [][ReqNext]_vars

MatchSpecInit == LifeIdle /\ BuildIdle /\ ReqIdle /\ MatchInit
MatchSpec == MatchSpecInit /\ [][MatchNext]_vars

----------------------------------------------------------------------------
(* Properties of the server lifecycle (Spec)                               *)

\* server s accepts connections
Listening(s) == crashed = NotCrashed /\ srvState[s] = "listening"

\* trigger t has called ListenAndServe on its own server
ReachedListen(t) == pc[t] \in {"serving", "clear", "unlock", "done"}

\* no goroutine of resetHandlers can take a step
Quiescent ==
    \/ crashed # NotCrashed
    \/ \A t \in Triggers :
          \/ pc[t] = "done"
          \/ pc[t] = "lock" /\ mutex # 0
          \/ pc[t] = "serving" /\ srvState[t] # "closed"

\* C1: whatever the number of rebuild triggers and the interleaving of their
\* steps, at most one server created by the gateway is listening.
C1_AtMostOneListening ==
    Cardinality({s \in Triggers : Listening(s)}) <= 1

\* C1 witness: a second server listens after an overlapping trigger shut the
\* first one down, while a third trigger waits for the mutex.
C1_Witness ==
    \E s, u, w \in Triggers :
        /\ Listening(s)
        /\ srvState[u] = "closed" /\ pc[u] = "done"
        /\ pc[w] = "lock"

\* C2: once all triggers have fired, the gateway is not stopped and no
\* rebuild goroutine can move, exactly one server is listening, and its route
\* table comes from a registry query made after the last trigger fired.
C2_LastWriterWins ==
    (fired = MaxTriggers /\ stopPc = "idle" /\ crashed # InvalidAlias /\ Quiescent)
        => \E t \in Triggers :
              /\ Listening(t)
              /\ \A u \in Triggers \ {t} : ~Listening(u)
              /\ fetchedAt[t] = fired

----------------------------------------------------------------------------
(* Properties of actionHandler.ServeHTTP (HandlerSpec)                     *)

\* the request just served had a method of the handler's accepted set
RequestAccepted == served /\ reqMethod \in computeAcceptedMethods(hAlias)

\* C4: a request whose method is not in the accepted set issues no RPC call
\* and gets one response with status 500 that describes the accepted methods.
C4_RejectedMethodGets500 ==
    (served /\ reqMethod \notin computeAcceptedMethods(hAlias))
        => /\ calls = <<>>
           /\ Len(written) = 1
           /\ written[1].status = 500
           /\ written[1].isError

\* C5: a request whose method is accepted issues exactly one RPC call, for
\* the handler's action, and writes exactly one response, with status 200
\* when the call's result is a value and 500 when it is an error.
C5_AcceptedCallsOnceAndAnswers ==
    RequestAccepted
        => /\ Len(calls) = 1
           /\ calls[1].action = hAction
           /\ Len(written) = 1
           /\ rpcResult \in {"value", "error"}
           /\ written[1].status = (IF rpcResult = "value" THEN 200 ELSE 500)
           /\ written[1].isError = (rpcResult = "error")

\* C5 witness: an accepted request to a method-restricted handler whose call
\* failed was answered with 500 after the call was issued.
C5_Witness ==
    /\ RequestAccepted
    /\ hAlias = al_get_users /\ reqMethod = GET
    /\ rpcResult = "error"
    /\ Len(calls) = 1 /\ written = <<[status |-> 500, isError |-> TRUE]>>

\* C6: when the parameters of an accepted request cannot be extracted, the
\* response has status 500 and an error body, whatever the call returns.
C6_ParseFailureGets500 ==
    (RequestAccepted /\ reqKind \in {"formError", "bodyReadError", "bodyError"})
        => /\ Len(written) = 1
           /\ written[1].status = 500
           /\ written[1].isError

----------------------------------------------------------------------------
(* Properties of the rebuild's route table (Spec)                          *)

\* trigger t has built its route table and not yet released the mutex
Built(t) == pc[t] \in {"listen", "serving", "clear", "unlock"}

\* C7: a rebuild whose registry query fails does not stop in the build step:
\* it goes on with zero handlers, still holding the mutex it releases later;
\* a rebuild whose registry query succeeds has the route table of the whole
\* listing, also after an earlier rebuild served the empty table.
C7_RegistryErrorDegrades ==
    \A t \in Triggers :
        /\ regErr[t] => pc[t] # "build"
        /\ (Built(t) /\ regErr[t]) => (table[t] = <<>> /\ mutex = t)
        /\ (Built(t) /\ ~regErr[t]) =>
              \E inverted \in InvertedMaps(settings) :
                  table[t] = filterActions(settings, listingOf[t], inverted)
        /\ pc[t] = "done" => mutex # t

\* C7 witness: after a server listened with the empty table of a failed
\* registry query, a later trigger is listening with a non-empty table.
C7_Witness ==
    /\ degraded
    /\ \E t \in Triggers :
          /\ pc[t] = "serving" /\ Listening(t)
          /\ ~regErr[t]
          /\ table[t] # <<>>

\* the alias string has neither one nor two whitespace-separated tokens
RECURSIVE TokenCount(_)
TokenCount(parts) ==
    IF parts = <<>> THEN 0
    ELSE (IF Head(parts) # <<>> THEN 1 ELSE 0) + TokenCount(Tail(parts))
MalformedAlias(alias) == TokenCount(Split(alias)) \notin {1, 2}
HasMalformedAlias(routes) ==
    \E i \in 1..Len(routes) : \E alias \in DOMAIN routes[i].aliases : MalformedAlias(alias)

\* C8: with a malformed alias string in the configuration the first rebuild
\* is fatal: no rebuild gets past its build step, whatever the listing.
C8_MalformedAliasIsFatal ==
    HasMalformedAlias(settings) => \A t \in Triggers : pc[t] \notin {"listen", "serving", "clear", "unlock", "done"}

----------------------------------------------------------------------------
(* Properties of one route-table build (BuildSpec)                         *)

\* the elements of a sequence
Range(seq) == {seq[i] : i \in 1..Len(seq)}

\* how many handlers of the list are for this action
BoundCount(handlers, action) ==
    Cardinality({i \in 1..Len(handlers) : handlers[i].action = action})

\* the alias is "<METHOD> <path>": one blank, a method name in any letter
\* case before it and a path without blanks after it
MethodAliasForm(alias) ==
    \E i \in 2..(Len(alias) - 1) :
        /\ \A j \in 1..Len(alias) : (alias[j] = " ") <=> (j = i)
        /\ ToUpper(SubSeq(alias, 1, i - 1)) \in {GET, POST, PUT, DELETE}
MethodOfAlias(alias) ==
    ToUpper(SubSeq(alias, 1, (CHOOSE i \in 1..Len(alias) : alias[i] = " ") - 1))

\* C9: under mappingPolicy restrict an action of the listing is bound iff it
\* passes the route's whitelist and is the target of an alias entry, and then
\* exactly once, under one of its alias strings; nothing else is bound; a
\* handler whose alias is "<METHOD> <path>" accepts exactly that method.
C9_RestrictBindsAliasedOnce ==
    (bDone /\ Len(bRoutes) = 1 /\ bRoutes[1].hasPolicy /\ bRoutes[1].mappingPolicy = "restrict")
        => LET route == bRoutes[1]
               targets == {route.aliases[k] : k \in DOMAIN route.aliases}
               listed == Range(allActions(bListing))
           IN /\ \A a \in listed \cup targets :
                    BoundCount(bHandlers, a) =
                        (IF /\ a \in listed
                            /\ shouldInclude(routeWhitelist(route), a)
                            /\ a \in targets
                         THEN 1 ELSE 0)
              /\ \A i \in 1..Len(bHandlers) :
                    LET h == bHandlers[i]
                    IN /\ h.action \in listed
                       /\ h.alias \in DOMAIN route.aliases
                       /\ route.aliases[h.alias] = h.action
                       /\ h.routePath = route.path
                       /\ MethodAliasForm(h.alias) =>
                             acceptedMethods(h.alias, {}) = {MethodOfAlias(h.alias)}

\* C9 witness: restrict with {"GET users": "users.list"} over a listing with
\* users.list and users.create binds users.list once, with {GET}.
C9_Witness ==
    /\ bDone /\ Len(bRoutes) = 1
    /\ bRoutes[1].hasPolicy /\ bRoutes[1].mappingPolicy = "restrict"
    /\ bRoutes[1].aliases = [k \in {al_get_users} |-> a_users_list]
    /\ bListing = listingUsers
    /\ Len(bHandlers) = 1
    /\ bHandlers[1].action = a_users_list
    /\ acceptedMethods(bHandlers[1].alias, {}) = {GET}

----------------------------------------------------------------------------
(* Properties of shouldInclude (MatchSpec)                                 *)

\* the pattern is "<svc>.*" with a plain service name
ServiceWildcard(item) ==
    /\ Len(item) >= 3
    /\ item[Len(item) - 1] = "." /\ item[Len(item)] = "*"
    /\ \A i \in 1..(Len(item) - 2) : item[i] \notin {".", "*"}
WildcardService(item) == SubSeq(item, 1, Len(item) - 2)

\* the service segment of "<service>.<name>": what precedes the last dot
ServiceSegment(action) ==
    SubSeq(action, 1, SetMax({i \in 1..Len(action) : action[i] = "."}) - 1)

\* C10: for a whitelist of the single pattern "<svc>.*", shouldInclude is
\* true iff the action's service segment is exactly <svc>.
C10_ServiceWildcardExact ==
    (mDone /\ Len(mWhitelist) = 1 /\ ServiceWildcard(mWhitelist[1]))
        => (mResult <=> (ServiceSegment(mAction) = WildcardService(mWhitelist[1])))

\* the pattern has letters only: as a regular expression it is a literal
RegexMeta == {".", "*", "^", "$", "\\"}
LiteralPattern(item) == item # <<>> /\ \A i \in 1..Len(item) : item[i] \notin RegexMeta

\* the pattern is "^...$" around letters and escaped dots
AnchoredLiteral(item) ==
    /\ Len(item) >= 3
    /\ item[1] = "^" /\ item[Len(item)] = "$"
    /\ \A i \in 2..(Len(item) - 1) :
          /\ item[i] \notin {"*", "^", "$"}
          /\ item[i] = "." => item[i - 1] = "\\"
          /\ item[i] = "\\" => item[i + 1] = "."
AnchoredText(item) == SelectSeq(SubSeq(item, 2, Len(item) - 1), LAMBDA c : c # "\\")

\* p occurs in s as a contiguous piece
Occurs(p, s) == \E i \in 0..(Len(s) - Len(p)) : SubSeq(s, i + 1, i + Len(p)) = p

\* C11 as stated: a literal pattern used as a regular expression includes an
\* action only if it matches the full action string, that is equals it.
C11_RegexMatchesFullString ==
    (mDone /\ Len(mWhitelist) = 1 /\ LiteralPattern(mWhitelist[1]))
        => (mResult => mAction = mWhitelist[1])

\* C11 amended: a pattern that is no wildcard form is searched for in the
\* action: a literal pattern includes exactly the actions it occurs in, and
\* only a pattern anchored with ^ and $ has to match the full string.
C11_RegexIsSearched ==
    (mDone /\ Len(mWhitelist) = 1)
        => /\ LiteralPattern(mWhitelist[1]) => (mResult <=> Occurs(mWhitelist[1], mAction))
           /\ AnchoredLiteral(mWhitelist[1]) => (mResult <=> mAction = AnchoredText(mWhitelist[1]))

\* C11 witness: pattern "math" includes "aftermath.add".
C11_Witness ==
    mDone /\ mWhitelist = <<w_math>> /\ mAction = a_aftermath_add /\ mResult

\* the pattern is "*.<name>" with a plain action name
ActionWildcard(item) ==
    /\ Len(item) >= 3
    /\ item[1] = "*" /\ item[2] = "."
    /\ \A i \in 3..Len(item) : item[i] \notin {".", "*"}
WildcardName(item) == SubSeq(item, 3, Len(item))

\* the name segment of "<service>.<name>": what follows the last dot
NameSegment(action) ==
    SubSeq(action, SetMax({i \in 1..Len(action) : action[i] = "."}) + 1, Len(action))

\* C12: for a whitelist of the single pattern "*.<name>", shouldInclude is
\* true iff the action's name segment is exactly <name>, for every service.
C12_ActionWildcardExact ==
    (mDone /\ Len(mWhitelist) = 1 /\ ActionWildcard(mWhitelist[1]))
        => (mResult <=> (NameSegment(mAction) = WildcardName(mWhitelist[1])))

\* C12 witness: "*.add" was applied to an action of another name that
\* contains ".add", and to it the answer was false.
C12_Witness ==
    mDone /\ mWhitelist = <<w_star_add>> /\ mAction = a_math_addx /\ ~mResult

----------------------------------------------------------------------------
(* More properties of one route-table build (BuildSpec)                    *)

\* the settings have one route and its policy does not drop actions
OneOpenRoute ==
    /\ bDone /\ Len(bRoutes) = 1
    /\ ~(bRoutes[1].hasPolicy /\ bRoutes[1].mappingPolicy = "restrict")

\* C13: an action of the listing is bound iff at least one pattern of the
\* route's whitelist matches it, wherever the pattern stands and whether or
\* not other patterns compile; a whitelist with "**" or "*.*" and a route
\* without whitelist key bind every action; an empty whitelist binds none.
C13_AnyPatternIncludes ==
    OneOpenRoute
        => LET route == bRoutes[1]
               wl == IF route.hasWhitelist THEN route.whitelist ELSE <<w_all>>
               listed == Range(allActions(bListing))
           IN /\ \A a \in listed :
                    BoundCount(bHandlers, a) =
                        (IF \E i \in 1..Len(wl) : ItemIncludes(wl[i], a) THEN 1 ELSE 0)
              /\ (route.hasWhitelist /\ route.whitelist = <<>>) => bHandlers = <<>>
              /\ (\/ ~route.hasWhitelist
                  \/ \E i \in 1..Len(route.whitelist) :
                        route.whitelist[i] \in {w_all, w_star_dot_star})
                    => \A a \in listed : BoundCount(bHandlers, a) = 1

\* C13 witness: the whitelist ["*add", "users.*"], whose first pattern does
\* not compile, bound the two users actions and not math.add.
C13_Witness ==
    /\ OneOpenRoute
    /\ bRoutes[1].hasWhitelist /\ bRoutes[1].whitelist = <<w_bad_star, w_users_star>>
    /\ bListing = listingUsersMath
    /\ Len(bHandlers) = 2
    /\ bHandlers[1].action = a_users_list /\ bHandlers[2].action = a_users_create

\* C14 as stated: no pattern that a build binds contains two consecutive
\* path separators.
C14_NoDoubledSeparator ==
    \A i \in 1..Len(bBound) : ~Occurs(<<"/", "/">>, bBound[i].pattern)

\* C15 as stated: two successive builds over the same routes and listing
\* bind the same set of (pattern, accepted methods, action) triples.
C15_RebuildSameTriples ==
    (bBuilds >= 2 /\ ~bPanic) => Range(bBound) = Range(bPrev)

\* does route i keep this action: its whitelist includes it and the Restrict
\* policy does not drop it
RouteKeeps(i, action) ==
    /\ \E k \in 1..Len(routeWhitelist(bRoutes[i])) :
          ItemIncludes(routeWhitelist(bRoutes[i])[k], action)
    /\ (bRoutes[i].hasPolicy /\ bRoutes[i].mappingPolicy = "restrict")
          => \E al \in DOMAIN bRoutes[i].aliases : bRoutes[i].aliases[al] = action

\* the (route path, action) pairs route i is expected to contribute: the
\* actions it keeps, in listing order
KeptByRoute(i) ==
    LET kept == SelectSeq(allActions(bListing), LAMBDA a : RouteKeeps(i, a))
    IN [j \in 1..Len(kept) |-> <<bRoutes[i].path, kept[j]>>]

\* C19: the handler list is, route after route in declaration order, the
\* actions the route keeps in listing order, each with that route's path; an
\* action that k routes keep has exactly k handlers.
C19_RouteThenListingOrder ==
    bDone
        => /\ [i \in 1..Len(bHandlers) |-> <<bHandlers[i].routePath, bHandlers[i].action>>]
                = (IF Len(bRoutes) = 1 THEN KeptByRoute(1)
                   ELSE KeptByRoute(1) \o KeptByRoute(2))
           /\ \A a \in Range(allActions(bListing)) :
                 BoundCount(bHandlers, a)
                    = Cardinality({i \in 1..Len(bRoutes) : RouteKeeps(i, a)})

\* C19 witness: routes "/" with ["**"] and "/api" with ["users.*"] over the
\* listing of users and math gave five handlers, users.list under both paths.
C19_Witness ==
    /\ bDone /\ Len(bRoutes) = 2 /\ bListing = listingUsersMath
    /\ bRoutes[1].path = p_root /\ bRoutes[2].path = p_api
    /\ Len(bHandlers) = 5
    /\ bHandlers[1].action = a_users_list /\ bHandlers[1].routePath = p_root
    /\ bHandlers[3].action = a_math_add /\ bHandlers[3].routePath = p_root
    /\ bHandlers[4].action = a_users_list /\ bHandlers[4].routePath = p_api

----------------------------------------------------------------------------
(* More properties of the server lifecycle (Spec)                          *)

\* C16 as stated: a step that reads or writes `server` (the check and the
\* shutdown request of a rebuild, the set and the clear) is taken only by the
\* task that holds the mutex, and the stop hook, which never takes the mutex,
\* takes no such step.
C16_ServerAccessUnderMutex ==
    [][ /\ \A t \in Triggers :
              (CheckServer(t) \/ RequestShutdown(t) \/ CreateServer(t) \/ ClearServer(t))
                  => mutex = t
        /\ ~(StopCheck \/ StopShutdown) ]_vars

\* C17 as stated: no task calls Shutdown through an empty slot.
C17_ShutdownOnlyOnServer == crashed # NilDereference

\* the phase of the slot: empty, or the state of the server it refers to
SlotPhase ==
    IF server = 0 THEN "empty"
    ELSE CASE srvState[server] = "new" -> "starting"
           [] srvState[server] = "listening" -> "listening"
           [] srvState[server] = "closed" -> "stopping"
           [] OTHER -> "none"

\* a non-empty slot refers to the server of the rebuild that holds the mutex
SlotOwnedByHolder == server # 0 => mutex = server

\* the steps of the cycle empty -> starting -> listening -> stopping -> empty
CycleSteps ==
    { <<"empty", "starting">>, <<"starting", "listening">>,
      <<"listening", "stopping">>, <<"stopping", "empty">> }

C20_StoppedMeansNoListener ==
    (stopPc = "done" /\ Quiescent) => \A s \in Triggers : ~Listening(s)

====
